---- MODULE Spec2Model ----
(***************************************************************************)
(* Model of the leaderboard package game_rank_test:                        *)
(*   - RankingSystem (MemoryRankingList.go): a players map, a ranks slice  *)
(*     of pointers into it and a sync.RWMutex;                             *)
(*   - RedisRankingList: a sorted set keyed by a composite score.          *)
(* Callers are goroutines (Threads) that invoke the public operations.     *)
(***************************************************************************)
EXTENDS Integers, Sequences, FiniteSets, TLC

(***************************************************************************)
(* Bounds of the model.                                                    *)
(***************************************************************************)
\* largest value time.Now() reaches (the clock stalls there)
MaxTime == 3
\* scores submitted are 1..MaxScore
MaxScore == 2
\* the n of GetTopN / GetPlayerRankRange ranges over MinN..MaxN
MaxN == 3

MinN == 0 - 1
\* the wall clock advances by at most MaxTick milliseconds
MaxTick == 2

Ids == {"alice", "bob", "carol"}
Threads == {"t1", "t2", "t3"}
Scores == 1..MaxScore
Ns == MinN..MaxN

VARIABLES
    players,    \* RankingSystem.players: map id -> [Score, UpdateTime]
    ranks,      \* RankingSystem.ranks: sequence of pointers (ids) into players
    mu,         \* RankingSystem.mu: [w, readers, blocked]
    clock,      \* the last value time.Now() returned
    pc,         \* where each goroutine is in its current call
    call,       \* the call each goroutine makes or made last
    ret,        \* what that call returned
    upserted,   \* history: the ids of the UpdateScore calls that have returned
    zset,       \* the Redis sorted set at r.key: member -> score (a float64)
    wallStart,  \* the wall clock when the client starts, in Unix milliseconds
    wallTick,   \* the milliseconds the wall clock has advanced since
    rcall,      \* the call the Redis client made last
    rret,       \* what that call returned
    submitted,  \* history: the score UpdateScore submitted last for each member
    inGetRank   \* a second Redis client's GetRank: where it is and its locals

memVars == <<players, ranks, mu, clock, pc, call, ret, upserted>>

redisVars == <<zset, wallStart, wallTick, rcall, rret, submitted, inGetRank>>

vars == <<memVars, redisVars>>

None == "none"

(***************************************************************************)
(* Helpers of the source.                                                  *)
(***************************************************************************)
min(a, b) == IF a < b THEN a ELSE b

max(a, b) == IF a > b THEN a ELSE b

\* Player.Score read through a *Player
ScoreOf(pl, id) == pl[id].Score

(***************************************************************************)
(* getSortedPlayers: the comparison handed to sort.Slice, and the slices   *)
(* sort.Slice can produce from a map iteration in any order. Players that  *)
(* compare equal (same Score, same UpdateTime) come out in either order.   *)
(***************************************************************************)
LessTimeDescending(pl, a, b) ==
    IF pl[a].Score # pl[b].Score
    THEN pl[a].Score > pl[b].Score
    ELSE pl[a].UpdateTime > pl[b].UpdateTime

Less(pl, a, b) ==
    IF pl[a].Score # pl[b].Score
    THEN pl[a].Score > pl[b].Score
    ELSE pl[a].UpdateTime < pl[b].UpdateTime

Perms(S) ==
    {p \in [1..Cardinality(S) -> S] : \A i, j \in 1..Cardinality(S) : p[i] = p[j] => i = j}

getSortedPlayersUnsorted(pl) == Perms(DOMAIN pl)

getSortedPlayers(pl) ==
    {p \in Perms(DOMAIN pl) : \A i, j \in 1..Len(p) : i < j => ~Less(pl, p[j], p[i])}

(***************************************************************************)
(* UpdateScore, lines 39-52: the write to the players map, given the value *)
(* now that time.Now() returns.                                            *)
(***************************************************************************)
NewPlayer(score, now) == [Score |-> score, UpdateTime |-> now]

UpsertDropsNew(pl, id, score, now) ==
    IF id \in DOMAIN pl
    THEN IF pl[id].Score # score
         THEN [pl EXCEPT ![id] = NewPlayer(score, now)]
         ELSE pl
    ELSE pl

Upsert(pl, id, score, now) ==
    IF id \in DOMAIN pl
    THEN IF pl[id].Score # score
         THEN [pl EXCEPT ![id] = NewPlayer(score, now)]
         ELSE pl
    ELSE [x \in DOMAIN pl \cup {id} |-> IF x = id THEN NewPlayer(score, now) ELSE pl[x]]

\* whether UpdateScore calls time.Now() at all
ReadsClock(pl, id, score) == id \notin DOMAIN pl \/ pl[id].Score # score

(***************************************************************************)
(* Results of the read operations. A result entry is the anonymous struct  *)
(* {Rank int; Player *Player}: the player is a pointer, modelled by its id.*)
(***************************************************************************)
ErrNil == "nil"
ErrArg == "n must be greater than 0"
ErrNotFound == "player not found"
ErrNotInRanking == "player not found in ranking"

NoRet == [err |-> None, rank |-> 0, player |-> None, result |-> <<>>]

Fail(e) == [err |-> e, rank |-> 0, player |-> None, result |-> <<>>]

Entry(rank, id) == [Rank |-> rank, Player |-> id]

\* the first 1-based position of id in the slice s, 0 when it is not there
IndexOf(s, id) ==
    IF \E i \in 1..Len(s) : s[i] = id
    THEN CHOOSE i \in 1..Len(s) : s[i] = id /\ \A j \in 1..(i - 1) : s[j] # id
    ELSE 0

\* the argument check of GetTopN and GetPlayerRankRange, lines 89 and 123
ArgInvalidNegativeOnly(n) == n < 0

ArgInvalid(n) == n <= 0

(***************************************************************************)
(* GetRank, lines 62-81. k is the 1-based position, i = k - 1 the index of *)
(* the source's loop.                                                      *)
(***************************************************************************)
RankAt(pl, rk, k) ==
    LET i == k - 1
    IN  IF i > 0 /\ ScoreOf(pl, rk[k - 1]) = ScoreOf(pl, rk[k])
        THEN i
        ELSE i + 1

GetRank(pl, rk, id) ==
    IF id \notin DOMAIN pl
    THEN Fail(ErrNotFound)
    ELSE LET k == IndexOf(rk, id)
         IN  IF k = 0
             THEN Fail(ErrNotInRanking)
             ELSE [err |-> ErrNil, rank |-> RankAt(pl, rk, k), player |-> rk[k],
                   result |-> <<>>]

(***************************************************************************)
(* GetTopN, lines 89-115. TopRank(pl, rk, k) is result[k-1].Rank.          *)
(***************************************************************************)
RECURSIVE TopRank(_, _, _)
TopRank(pl, rk, k) ==
    IF k > 1 /\ ScoreOf(pl, rk[k]) = ScoreOf(pl, rk[k - 1])
    THEN TopRank(pl, rk, k - 1)
    ELSE k

TopLenOffByOne(n, length) == min(n - 1, length)

TopLen(n, length) == min(n, length)

GetTopN(pl, rk, n) ==
    IF ArgInvalid(n)
    THEN Fail(ErrArg)
    ELSE [err |-> ErrNil, rank |-> 0, player |-> None,
          result |-> [k \in 1..TopLen(n, Len(rk)) |-> Entry(TopRank(pl, rk, k), rk[k])]]

(***************************************************************************)
(* GetPlayerRankRange, lines 123-187, on the slice sp that its own call of *)
(* getSortedPlayers returned. Indices are the source's 0-based ones.       *)
(***************************************************************************)
\* lines 167-179: the rank of the entry at index i
RangeRank(pl, sp, i) ==
    IF i > 0 /\ ScoreOf(pl, sp[i + 1]) = ScoreOf(pl, sp[i])
    THEN LET differ == {j \in 0..(i - 1) : ScoreOf(pl, sp[j + 1]) # ScoreOf(pl, sp[i + 1])}
         IN  IF differ # {}
             THEN (CHOOSE j \in differ : \A x \in differ : x <= j) + 2
             ELSE 1
    ELSE i + 1

\* lines 151-158 without the adjustment of start
WindowNoPullBack(len, index, n) ==
    LET half == n \div 2
        start == max(0, index - half)
        end == min(len, start + n)
    IN  <<start, end>>

\* lines 151-158: <<start, end>> of the window
Window(len, index, n) ==
    LET half == n \div 2
        start == max(0, index - half)
        end == min(len, start + n)
    IN  IF end - start < n
        THEN <<max(0, end - n), end>>
        ELSE <<start, end>>

GetPlayerRankRange(pl, sp, id, n) ==
    IF ArgInvalid(n)
    THEN Fail(ErrArg)
    ELSE IF id \notin DOMAIN pl
    THEN Fail(ErrNotFound)
    ELSE LET index == IndexOf(sp, id) - 1
         IN  IF index = 0 - 1
             THEN Fail(ErrNotInRanking)
             ELSE LET w == Window(Len(sp), index, n)
                      start == w[1]
                      end == w[2]
                  IN  [err |-> ErrNil, rank |-> 0, player |-> None,
                       result |-> [x \in 1..(end - start) |->
                                      Entry(RangeRank(pl, sp, start + x - 1), sp[start + x])]]

(***************************************************************************)
(* sync.RWMutex as the source uses it. mu.w is the goroutine that holds    *)
(* the writer mutex rw.w (it has announced itself and waits for the active *)
(* readers to leave, or it is in its critical section); mu.readers are the *)
(* goroutines holding the read lock; mu.blocked are the readers that       *)
(* called RLock while a writer was announced and sleep until its Unlock.   *)
(***************************************************************************)
MuFree == [w |-> None, readers |-> {}, blocked |-> {}]

\* RLock succeeds at once unless a writer is announced
RLockAdmitsIgnoringWriter(m) == TRUE

RLockAdmits(m) == m.w = None

\* Lock, second half: the announced writer proceeds once no reader is active
LockAdmits(m, t) == m.w = t /\ m.readers = {}

\* Unlock: the blocked readers become readers, rw.w is released
Unlock(m) == [w |-> None, readers |-> m.blocked, blocked |-> {}]

\* RUnlock
RUnlockLeaks(m, t) == m

RUnlock(m, t) == [m EXCEPT !.readers = @ \ {t}]

(***************************************************************************)
(* Calls.                                                                  *)
(***************************************************************************)
OpUpdateScore == "UpdateScore"
OpGetRank == "GetRank"
OpGetTopN == "GetTopN"
OpGetPlayerRankRange == "GetPlayerRankRange"

NoCall == [op |-> None, id |-> None, score |-> 0, n |-> 0]

Call(op, id, score, n) == [op |-> op, id |-> id, score |-> score, n |-> n]

\* time.Now(): never before the value read last; it need not have advanced
Now == {clock, min(clock + 1, MaxTime)}

(***************************************************************************)
(* RedisRankingList. A 64-bit integer is written in three limbs,           *)
(* h * 2^40 + m * 2^20 + l with 0 <= m, l < 2^20 and -2^23 <= h < 2^23, so *)
(* that score<<40 is a value whose h is the score and x>>40 is the h of x. *)
(* A float64 that holds an integer is written the same way.                *)
(***************************************************************************)
\* 2^20, half of the 40 bits of the shift
Limb == 1048576
\* 2^23: h of an int64 is a signed 24-bit number
SignLimb == 8388608
\* a float64 has 53 bits of mantissa: 40 bits of m and l and 13 bits of h
MantissaHighBits == 13

I64(h, m, l) == [h |-> h, m |-> m, l |-> l]

\* the limbs of the integer h * 2^40 + m * 2^20 + l, for any integers m and l
Norm(h, m, l) ==
    LET l2 == l % Limb
        m1 == m + ((l - l2) \div Limb)
        m2 == m1 % Limb
    IN  I64(h + ((m1 - m2) \div Limb), m2, l2)

\* int64 arithmetic wraps around
Wrap(v) == [v EXCEPT !.h = ((v.h + SignLimb) % (2 * SignLimb)) - SignLimb]

\* score << 40
Shl40(score) == Wrap(I64(score, 0, 0))

\* a - b on int64
Sub64(a, b) == Wrap(Norm(a.h - b.h, a.m - b.m, a.l - b.l))

Neg(v) == Norm(0 - v.h, 0 - v.m, 0 - v.l)

\* x >> 40 on int64: the arithmetic shift rounds toward minus infinity
Shr40(v) == v.h

\* the number of bits of h >= 0
RECURSIVE BitLen(_)
BitLen(h) == IF h = 0 THEN 0 ELSE 1 + BitLen(h \div 2)

\* float64 of the magnitude v >= 0: round to nearest, ties to even, on 53 bits
RoundMagnitude(v) ==
    LET drop == BitLen(v.h) - MantissaHighBits
    IN  IF drop <= 0
        THEN v
        ELSE LET ulp == 2 ^ drop
                 rest == v.l % ulp
                 base == v.l - rest
                 up == \/ 2 * rest > ulp
                       \/ 2 * rest = ulp /\ (base \div ulp) % 2 = 1
             IN  Norm(v.h, v.m, base + (IF up THEN ulp ELSE 0))

\* float64(x) of an int64 x
Float64(v) == IF v.h >= 0 THEN RoundMagnitude(v) ELSE Neg(RoundMagnitude(Neg(v)))

\* int64(f) of a float64 f that holds an integer within the int64 range, which
\* every float64 of the model does (RedisTypeOK)
Int64(f) == f

InInt64Range(f) == 0 - SignLimb <= f.h /\ f.h < SignLimb

\* line 52: float64(score<<40 - timestamp)
CompositeScore(score, timestamp) == Float64(Sub64(Shl40(score), timestamp))

\* GetRealScore, lines 61-63
GetRealScore(compositeScore) == Shr40(Int64(compositeScore))

\* time.Now().UnixMilli()
UnixMilli(start, tick) == Norm(start.h, start.m, start.l + tick)

(***************************************************************************)
(* The Redis sorted set: members ordered by score ascending, members of    *)
(* equal score by name. Scores travel as decimal strings that give back    *)
(* the same float64.                                                       *)
(***************************************************************************)
FloatLess(a, b) ==
    \/ a.h < b.h
    \/ a.h = b.h /\ a.m < b.m
    \/ a.h = b.h /\ a.m = b.m /\ a.l < b.l

\* the member names in lexicographic order
MemberOrder == <<"alice", "bob", "carol">>

MemberLess(a, b) == IndexOf(MemberOrder, a) < IndexOf(MemberOrder, b)

ZLess(z, a, b) ==
    \/ FloatLess(z[a], z[b])
    \/ z[a] = z[b] /\ MemberLess(a, b)

\* ZADD key score member
ZAdd(z, member, score) ==
    [x \in DOMAIN z \cup {member} |-> IF x = member THEN score ELSE z[x]]

\* ZREM key member
ZRemKeepsMember(z, member) == z

ZRem(z, member) == [x \in DOMAIN z \ {member} |-> z[x]]

\* ZCARD key
ZCard(z) == Cardinality(DOMAIN z)

\* ZRANK key member: the 0-based ascending rank (member is in the set)
ZRank(z, member) == Cardinality({x \in DOMAIN z : ZLess(z, x, member)})

\* the member at the 0-based ascending rank i
ZAt(z, i) == CHOOSE x \in DOMAIN z : ZRank(z, x) = i

\* ZRANGE key start stop WITHSCORES, for start >= 0 and stop >= 0
ZRangeWithScores(z, start, stop) ==
    LET last == min(stop, ZCard(z) - 1)
    IN  IF start > last
        THEN <<>>
        ELSE [k \in 1..(last - start + 1) |->
                 [Member |-> ZAt(z, start + k - 1), Score |-> z[ZAt(z, start + k - 1)]]]

(***************************************************************************)
(* The operations of RedisRankingList, one client, each call whole.        *)
(***************************************************************************)
ErrRedis == "redis: nil"

RNoRet == [err |-> None, rank |-> 0, score |-> 0, result |-> <<>>]

RFail(e) == [err |-> e, rank |-> 0, score |-> 0, result |-> <<>>]

PlayerRank(id, score, rank) == [PlayerID |-> id, Score |-> score, Rank |-> rank]

\* GetRank, lines 66-90
RedisGetRank(z, id) ==
    IF id \notin DOMAIN z
    THEN RFail(ErrRedis)
    ELSE [err |-> ErrNil, rank |-> ZCard(z) - ZRank(z, id),
          score |-> GetRealScore(z[id]), result |-> <<>>]

\* GetTopN, lines 93-125; TopNRank(results, k) is rankings[k-1].Rank
RECURSIVE TopNRank(_, _)
TopNRank(results, k) ==
    IF k > 1 /\ GetRealScore(results[k].Score) = GetRealScore(results[k - 1].Score)
    THEN TopNRank(results, k - 1)
    ELSE k

RedisGetTopN(z, n) ==
    IF ArgInvalid(n)
    THEN RFail(ErrArg)
    ELSE LET results == ZRangeWithScores(z, 0, n - 1)
         IN  [err |-> ErrNil, rank |-> 0, score |-> 0,
              result |-> [k \in 1..Len(results) |->
                             PlayerRank(results[k].Member, GetRealScore(results[k].Score),
                                        TopNRank(results, k))]]

\* GetPlayerRankRange, lines 128-187: the entries get the ranks total - ZRANK,
\* all different, and are sorted by them, which reverses the range
RedisGetPlayerRankRange(z, id, n) ==
    IF ArgInvalid(n)
    THEN RFail(ErrArg)
    ELSE IF id \notin DOMAIN z
    THEN RFail(ErrRedis)
    ELSE LET rank == ZRank(z, id)
             half == n \div 2
             start == max(0, rank - half)
             end == start + n - 1
             results == ZRangeWithScores(z, start, end)
             count == Len(results)
         IN  [err |-> ErrNil, rank |-> 0, score |-> 0,
              result |-> [k \in 1..count |->
                             LET e == results[count + 1 - k]
                             IN  PlayerRank(e.Member, GetRealScore(e.Score),
                                            ZCard(z) - ZRank(z, e.Member))]]

TypeOK ==
    /\ DOMAIN players \subseteq Ids
    /\ \A id \in DOMAIN players :
          players[id].Score \in Scores /\ players[id].UpdateTime \in 1..MaxTime
    /\ clock \in 1..MaxTime
    /\ mu.w \in Threads \cup {None}
    /\ mu.readers \subseteq Threads
    /\ mu.blocked \subseteq Threads
    /\ pc \in [Threads -> {"idle", "wLock", "wDrain", "mutated", "kept",
                          "rBlocked", "rLocked", "rDone"}]
    /\ upserted \subseteq Ids

InitMemory ==
    /\ players = <<>>
    /\ ranks = <<>>
    /\ mu = MuFree
    /\ clock = 1
    /\ pc = [t \in Threads |-> "idle"]
    /\ call = [t \in Threads |-> NoCall]
    /\ ret = [t \in Threads |-> NoRet]
    /\ upserted = {}

\* the Redis client is not used
\* the second client before its first GetRank; held is a history of the
\* ranks its player has had since the call began
NoGetRank == [pc |-> "idle", id |-> None, rank |-> 0, score |-> I64(0, 0, 0),
              ret |-> RNoRet, held |-> {}]

InitRedisUnused ==
    /\ inGetRank = NoGetRank
    /\ zset = <<>>
    /\ wallStart = I64(0, 0, 1)
    /\ wallTick = 0
    /\ rcall = NoCall
    /\ rret = RNoRet
    /\ submitted = <<>>

Init == InitMemory /\ InitRedisUnused

(***************************************************************************)
(* UpdateScore(playerID, score), lines 35-54.                              *)
(***************************************************************************)
\* the call; r.mu.Lock() starts by queueing for rw.w
UpdateScoreCall(t, id, score) ==
    /\ pc[t] = "idle"
    /\ call' = [call EXCEPT ![t] = Call(OpUpdateScore, id, score, 0)]
    /\ ret' = [ret EXCEPT ![t] = NoRet]
    /\ pc' = [pc EXCEPT ![t] = "wLock"]
    /\ UNCHANGED <<players, ranks, mu, clock, upserted>>

\* r.mu.Lock(): rw.w is taken and the writer announced to the readers
UpdateScoreLock(t) ==
    /\ pc[t] = "wLock"
    /\ mu.w = None
    /\ mu' = [mu EXCEPT !.w = t]
    /\ pc' = [pc EXCEPT ![t] = "wDrain"]
    /\ UNCHANGED <<players, ranks, clock, call, ret, upserted>>

\* r.mu.Lock() returns once the readers have left, then lines 39-52: the
\* goroutine is then at line 53, having written to the map ("mutated") or
\* having found the player with that very score ("kept")
UpdateScoreWrite(t) ==
    /\ pc[t] = "wDrain"
    /\ LockAdmits(mu, t)
    /\ \E now \in Now :
          /\ players' = Upsert(players, call[t].id, call[t].score, now)
          /\ clock' = IF ReadsClock(players, call[t].id, call[t].score) THEN now ELSE clock
    /\ pc' = [pc EXCEPT ![t] = IF ReadsClock(players, call[t].id, call[t].score)
                                THEN "mutated" ELSE "kept"]
    /\ UNCHANGED <<ranks, mu, call, ret, upserted>>

\* line 53, then the deferred r.mu.Unlock() and the return
UpdateScoreSort(t) ==
    /\ pc[t] \in {"mutated", "kept"}
    /\ ranks' \in getSortedPlayers(players)
    /\ mu' = Unlock(mu)
    /\ pc' = [x \in Threads |->
                IF x = t THEN "idle"
                ELSE IF x \in mu.blocked THEN "rLocked" ELSE pc[x]]
    /\ ret' = [ret EXCEPT ![t] = [NoRet EXCEPT !.err = ErrNil]]
    /\ upserted' = upserted \cup {call[t].id}
    /\ UNCHANGED <<players, clock, call>>

(***************************************************************************)
(* The read operations. GetTopN and GetPlayerRankRange check n before they *)
(* lock (lines 89-91, 123-125); otherwise r.mu.RLock() is taken, the       *)
(* result computed, and the deferred r.mu.RUnlock() runs as the call       *)
(* returns.                                                                *)
(***************************************************************************)
\* a call that fails its argument check: it returns without locking
ReadCallInvalid(t, op, id, n) ==
    /\ pc[t] = "idle"
    /\ op \in {OpGetTopN, OpGetPlayerRankRange}
    /\ ArgInvalid(n)
    /\ call' = [call EXCEPT ![t] = Call(op, IF op = OpGetTopN THEN None ELSE id, 0, n)]
    /\ ret' = [ret EXCEPT ![t] = Fail(ErrArg)]
    /\ UNCHANGED <<players, ranks, mu, clock, pc, upserted>>

\* a call that reaches r.mu.RLock()
ReadCallLock(t, op, id, n) ==
    /\ pc[t] = "idle"
    /\ op \in {OpGetRank, OpGetTopN, OpGetPlayerRankRange}
    /\ op = OpGetRank \/ ~ArgInvalid(n)
    /\ call' = [call EXCEPT ![t] = Call(op, IF op = OpGetTopN THEN None ELSE id, 0,
                                         IF op = OpGetRank THEN 0 ELSE n)]
    /\ ret' = [ret EXCEPT ![t] = NoRet]
    /\ IF RLockAdmits(mu)
       THEN /\ mu' = [mu EXCEPT !.readers = @ \cup {t}]
            /\ pc' = [pc EXCEPT ![t] = "rLocked"]
       ELSE /\ mu' = [mu EXCEPT !.blocked = @ \cup {t}]
            /\ pc' = [pc EXCEPT ![t] = "rBlocked"]
    /\ UNCHANGED <<players, ranks, clock, upserted>>

\* the body of the read operation, under the read lock
ReadBody(t) ==
    /\ pc[t] = "rLocked"
    /\ \/ /\ call[t].op = OpGetRank
          /\ ret' = [ret EXCEPT ![t] = GetRank(players, ranks, call[t].id)]
       \/ /\ call[t].op = OpGetTopN
          /\ ret' = [ret EXCEPT ![t] = GetTopN(players, ranks, call[t].n)]
       \/ /\ call[t].op = OpGetPlayerRankRange
          /\ \E sp \in getSortedPlayers(players) :
                ret' = [ret EXCEPT ![t] = GetPlayerRankRange(players, sp, call[t].id, call[t].n)]
    /\ pc' = [pc EXCEPT ![t] = "rDone"]
    /\ UNCHANGED <<players, ranks, mu, clock, call, upserted>>

\* the deferred r.mu.RUnlock() and the return
ReadReturn(t) ==
    /\ pc[t] = "rDone"
    /\ mu' = RUnlock(mu, t)
    /\ pc' = [pc EXCEPT ![t] = "idle"]
    /\ UNCHANGED <<players, ranks, clock, call, ret, upserted>>

\* the steps of the goroutines T, with arguments drawn from I, S and N
Step(T, I, S, N) ==
    \E t \in T :
        \/ \E id \in I, score \in S : UpdateScoreCall(t, id, score)
        \/ UpdateScoreLock(t)
        \/ UpdateScoreWrite(t)
        \/ UpdateScoreSort(t)
        \/ \E op \in {OpGetTopN, OpGetPlayerRankRange}, id \in I, n \in N :
              ReadCallInvalid(t, op, id, n)
        \/ \E op \in {OpGetRank, OpGetTopN, OpGetPlayerRankRange}, id \in I, n \in N :
              ReadCallLock(t, op, id, n)
        \/ ReadBody(t)
        \/ ReadReturn(t)

\* one goroutine calls the operations one after the other
Next == Step({"t1"}, Ids, Scores, Ns) /\ UNCHANGED redisVars

Spec == Init /\ [][Next]_vars

\* two goroutines call the operations concurrently
ConcThreads == {"t1", "t2"}
ConcIds == {"alice", "bob"}
ConcScores == {1, 2}
ConcNs == {0, 1, 2}

NextConc == Step(ConcThreads, ConcIds, ConcScores, ConcNs) /\ UNCHANGED redisVars

SpecConc == Init /\ [][NextConc]_vars

(***************************************************************************)
(* Scheduling. A goroutine that can take its next step inside a call takes *)
(* it (weak fairness); nothing obliges a caller to make a new call. rw.w   *)
(* is a sync.Mutex, whose starvation mode hands the mutex to a goroutine   *)
(* that has waited for it, so a writer queueing for rw.w gets it (strong   *)
(* fairness on UpdateScoreLock).                                           *)
(***************************************************************************)
Fairness ==
    \A t \in Threads :
        /\ SF_vars(UpdateScoreLock(t) /\ UNCHANGED redisVars)
        /\ WF_vars(UpdateScoreWrite(t) /\ UNCHANGED redisVars)
        /\ WF_vars(UpdateScoreSort(t) /\ UNCHANGED redisVars)
        /\ WF_vars(ReadBody(t) /\ UNCHANGED redisVars)
        /\ WF_vars(ReadReturn(t) /\ UNCHANGED redisVars)

\* three goroutines under fair scheduling: the lock discipline does not depend
\* on the data, so one player and one score are enough to take every path
LiveIds == {"alice"}
LiveScores == {1}
LiveNs == {0, 1}

NextLive == Step(Threads, LiveIds, LiveScores, LiveNs) /\ UNCHANGED redisVars

FairSpec == Init /\ [][NextLive]_vars /\ Fairness

(***************************************************************************)
(* Vocabulary of the properties, stated without the operators above.       *)
(***************************************************************************)
Population == Cardinality(DOMAIN players)

\* competition rank: one more than the number of players with a higher score
CompetitionRank(id) ==
    1 + Cardinality({x \in DOMAIN players : players[x].Score > players[id].Score})

\* sp lists every player once, score descending, then update time ascending
IsRankOrder(sp) ==
    /\ Len(sp) = Population
    /\ {sp[i] : i \in 1..Len(sp)} = DOMAIN players
    /\ \A i, j \in 1..Len(sp) :
          i < j => \/ players[sp[i]].Score > players[sp[j]].Score
                   \/ /\ players[sp[i]].Score = players[sp[j]].Score
                      /\ players[sp[i]].UpdateTime <= players[sp[j]].UpdateTime

\* the goroutine t has computed the result of a call of op and still holds the read lock
Computed(t, op) == pc[t] = "rDone" /\ call[t].op = op

\* no UpdateScore is between its write to the map and its return
NoWriteInProgress == \A t \in Threads : pc[t] \notin {"mutated", "kept"}

(***************************************************************************)
(* C1: GetRank(id) returns the competition rank of id, 1 + the number of   *)
(* players with a strictly higher score, so that all players of a tie      *)
(* group of any size get the same rank.                                    *)
(***************************************************************************)
C1_GetRankIsCompetitionRank ==
    \A t \in Threads :
        (Computed(t, OpGetRank) /\ ret[t].err = ErrNil)
            => ret[t].rank = CompetitionRank(call[t].id)

(***************************************************************************)
(* C2: for n > 0, GetTopN(n) returns the first min(n, population) players  *)
(* of the order (score descending, then update time ascending), the first  *)
(* with rank 1, each later one with its position as rank unless its score  *)
(* equals the previous entry's, whose rank it then takes; alice 100, bob   *)
(* 200, carol 100 upserted in that order give (1,bob) (2,alice) (2,carol). *)
(***************************************************************************)
C2_Scenario ==
    /\ DOMAIN players = {"alice", "bob", "carol"}
    /\ players["alice"].Score = 1
    /\ players["bob"].Score = 2
    /\ players["carol"].Score = 1
    /\ players["alice"].UpdateTime < players["carol"].UpdateTime

C2_GetTopN ==
    \A t \in Threads :
        Computed(t, OpGetTopN) =>
            LET r == ret[t].result
                n == call[t].n
            IN  /\ ret[t].err = ErrNil
                /\ IsRankOrder(ranks)
                /\ Len(r) = IF n < Population THEN n ELSE Population
                /\ \A k \in 1..Len(r) :
                      /\ r[k].Player = ranks[k]
                      /\ r[k].Rank =
                            IF k > 1 /\ players[r[k].Player].Score = players[r[k - 1].Player].Score
                            THEN r[k - 1].Rank
                            ELSE k
                /\ (C2_Scenario /\ n = 3) =>
                      r = <<[Rank |-> 1, Player |-> "bob"],
                            [Rank |-> 2, Player |-> "alice"],
                            [Rank |-> 2, Player |-> "carol"]>>

C2_Witness ==
    /\ Computed("t1", OpGetTopN)
    /\ call["t1"].n = 3
    /\ C2_Scenario
    /\ Len(ret["t1"].result) = 3

(***************************************************************************)
(* C3: for a present id and n > 0, GetPlayerRankRange(id, n) returns       *)
(* exactly min(n, population) entries, one of them id: the players at      *)
(* consecutive positions start.. of the sorted order, in that order, where *)
(* start = max(1, p - n/2) for id's position p, pulled back toward 1 when  *)
(* the window would run past the last position.                            *)
(***************************************************************************)
C3_Count(n) == IF n < Population THEN n ELSE Population

C3_Start(p, n) ==
    LET natural == IF p - (n \div 2) > 1 THEN p - (n \div 2) ELSE 1
    IN  IF natural + n - 1 > Population
        THEN (IF Population - n + 1 > 1 THEN Population - n + 1 ELSE 1)
        ELSE natural

C3_Position(sp, id) == CHOOSE p \in 1..Len(sp) : sp[p] = id

C3_Window ==
    \A t \in Threads :
        (Computed(t, OpGetPlayerRankRange) /\ call[t].id \in DOMAIN players) =>
            LET r == ret[t].result
                n == call[t].n
                id == call[t].id
            IN  /\ ret[t].err = ErrNil
                /\ Len(r) = C3_Count(n)
                /\ \E k \in 1..Len(r) : r[k].Player = id
                /\ \E sp \in Perms(DOMAIN players) :
                      /\ IsRankOrder(sp)
                      /\ \A k \in 1..Len(r) :
                            r[k].Player = sp[C3_Start(C3_Position(sp, id), n) + k - 1]

\* the window of the last of three players, n = 3: it is pulled back from 2..4 to 1..3
C3_Witness ==
    /\ Computed("t1", OpGetPlayerRankRange)
    /\ Population = 3
    /\ call["t1"].n = 3
    /\ Len(ret["t1"].result) = 3
    /\ ret["t1"].result[3].Player = call["t1"].id

(***************************************************************************)
(* C4: if A reached score s strictly earlier than B reached it, then while *)
(* both hold s, A's position precedes B's and GetRank(A) <= GetRank(B),    *)
(* also after B went to another score and came back, and after any         *)
(* UpdateScore on other players.                                           *)
(***************************************************************************)
C4_TieBreak ==
    NoWriteInProgress =>
        \A a, b \in DOMAIN players :
            (/\ players[a].Score = players[b].Score
             /\ players[a].UpdateTime < players[b].UpdateTime) =>
                /\ IndexOf(ranks, a) > 0
                /\ IndexOf(ranks, a) < IndexOf(ranks, b)
                /\ GetRank(players, ranks, a).err = ErrNil
                /\ GetRank(players, ranks, b).err = ErrNil
                /\ GetRank(players, ranks, a).rank <= GetRank(players, ranks, b).rank

\* bob is at alice's score since time 3 and alice since time 1: bob's upsert at
\* time 3 was not his first, that one read the clock at 2 at the latest
C4_Witness ==
    /\ NoWriteInProgress
    /\ DOMAIN players = {"alice", "bob", "carol"}
    /\ players["alice"].Score = players["bob"].Score
    /\ players["carol"].Score = players["bob"].Score
    /\ players["alice"].UpdateTime = 1
    /\ players["carol"].UpdateTime = 1
    /\ players["bob"].UpdateTime = 3
    /\ ranks[3] = "bob"

(***************************************************************************)
(* C5: UpdateScore(id, s) gives an existing player a new UpdateTime if and *)
(* only if s differs from the stored score; a repeated UpdateScore(id, s)  *)
(* leaves the player's UpdateTime, the sorted order of all players and     *)
(* every player's GetRank result unchanged.                                *)
(***************************************************************************)
C5_Stamps(t) ==
    (pc[t] = "wDrain" /\ pc'[t] \in {"mutated", "kept"} /\ call[t].id \in DOMAIN players) =>
        players'[call[t].id].UpdateTime =
            IF players[call[t].id].Score # call[t].score
            THEN clock'
            ELSE players[call[t].id].UpdateTime

C5_Repeated(t) ==
    (pc[t] = "kept" /\ pc'[t] = "idle") =>
        /\ players' = players
        /\ ranks' = ranks
        /\ \A id \in DOMAIN players :
              GetRank(players', ranks', id) = GetRank(players, ranks, id)

C5_RepeatedUpdateChangesNothing ==
    [][\A t \in Threads : C5_Stamps(t) /\ C5_Repeated(t)]_vars

(***************************************************************************)
(* C6: while a reader is inside its read-locked section no writer is       *)
(* between its write to the players map and the reassignment of ranks, and *)
(* the ranks the reader sees are sorted by the scores it sees in players.  *)
(***************************************************************************)
InReadSection(t) == pc[t] \in {"rLocked", "rDone"}

InWriteSection(t) == pc[t] \in {"mutated", "kept"}

C6_NoHalfAppliedWrite ==
    \A t \in Threads :
        InReadSection(t) =>
            /\ \A u \in Threads : ~InWriteSection(u)
            /\ IsRankOrder(ranks)

\* a reader in its section while a writer has announced itself and waits
C6_Witness ==
    /\ InReadSection("t1")
    /\ pc["t2"] = "wDrain"
    /\ mu.w = "t2"
    /\ Population = 2

(***************************************************************************)
(* C8: for n <= 0, GetTopN(n) and GetPlayerRankRange(id, n) return an      *)
(* error and no result, whether or not id is present, and leave players    *)
(* and ranks as they were.                                                 *)
(***************************************************************************)
C8_Called(t) ==
    /\ call'[t] # call[t]
    /\ call'[t].op \in {OpGetTopN, OpGetPlayerRankRange}
    /\ call'[t].n <= 0

C8_InvalidArgument ==
    [][\A t \in Threads :
          C8_Called(t) =>
              /\ ret'[t].err = ErrArg
              /\ ret'[t].result = <<>>
              /\ pc'[t] = "idle"
              /\ players' = players
              /\ ranks' = ranks]_vars

\* GetPlayerRankRange(id, n <= 0) has failed on its argument for an absent id
C8_Witness ==
    /\ call["t1"].op = OpGetPlayerRankRange
    /\ call["t1"].n <= 0
    /\ call["t1"].id \notin DOMAIN players
    /\ Population > 0
    /\ ret["t1"].err = ErrArg

(***************************************************************************)
(* C9: GetRank(id) and GetPlayerRankRange(id, n), n > 0, fail with "not    *)
(* found" exactly when id has never been upserted and succeed for every id *)
(* that has been; "not found in ranking" never happens; a failing call     *)
(* leaves players and ranks unchanged.                                     *)
(***************************************************************************)
C9_Lookup(t) == call[t].op \in {OpGetRank, OpGetPlayerRankRange}

C9_Result(t) ==
    (pc[t] = "rDone" /\ C9_Lookup(t)) =>
        /\ ret[t].err = (IF call[t].id \in upserted THEN ErrNil ELSE ErrNotFound)
        /\ ret[t].err # ErrNotInRanking

C9_Untouched(t) ==
    (pc[t] = "rLocked" /\ pc'[t] = "rDone" /\ C9_Lookup(t)) =>
        (players' = players /\ ranks' = ranks)

C9_NotFound ==
    /\ [](\A t \in Threads : C9_Result(t))
    /\ [][\A t \in Threads : C9_Untouched(t)]_vars

\* one lookup of an id never upserted has failed, with other players present
C9_Witness ==
    /\ pc["t1"] = "rDone"
    /\ call["t1"].op = OpGetPlayerRankRange
    /\ call["t1"].id \notin upserted
    /\ Population = 2
    /\ ret["t1"].err = ErrNotFound

(***************************************************************************)
(* C7: every operation that takes the mutex releases it on every exit      *)
(* path: under fair scheduling every call that was made returns, and the   *)
(* lock is free whenever no call is in progress.                           *)
(***************************************************************************)
C7_InCall(t) == pc[t] # "idle"

C7_EveryCallReturns ==
    /\ \A t \in Threads : C7_InCall(t) ~> ~C7_InCall(t)
    /\ []((\A t \in Threads : ~C7_InCall(t)) => mu = MuFree)

\* a lookup that failed with "not found" has returned and the lock is free,
\* while the other goroutine queues for the write lock
C7_Witness ==
    /\ pc["t1"] = "idle"
    /\ call["t1"].op = OpGetRank
    /\ ret["t1"].err = ErrNotFound
    /\ pc["t2"] = "wLock"
    /\ mu = MuFree

(***************************************************************************)
(* RedisRankingList: the calls of one client.                              *)
(***************************************************************************)
\* scores submitted to the Redis leaderboard; 8194 << 40 exceeds 2^53
RedisScores == {100, 8194}

\* the wall clock at the start: 1 ms after the epoch, or 2026-11-04 (1793750400000)
WallStarts == {I64(0, 0, 1), I64(1, 662077, 719872)}

OpRemovePlayer == "RemovePlayer"
OpGetTotalPlayers == "GetTotalPlayers"

RedisTypeOK ==
    /\ DOMAIN zset \subseteq Ids
    /\ \A id \in DOMAIN zset : InInt64Range(zset[id])
    /\ wallTick \in 0..MaxTick
    /\ DOMAIN submitted = DOMAIN zset

RedisInit ==
    /\ InitMemory
    /\ inGetRank = NoGetRank
    /\ zset = <<>>
    /\ wallStart \in WallStarts
    /\ wallTick = 0
    /\ rcall = NoCall
    /\ rret = RNoRet
    /\ submitted = <<>>

\* UpdateScore, lines 49-58
RedisUpdateScoreCall(id, score) ==
    \E tick \in {wallTick, min(wallTick + 1, MaxTick)} :
        LET timestamp == UnixMilli(wallStart, tick)
            compositeScore == CompositeScore(score, timestamp)
        IN  /\ wallTick' = tick
            /\ zset' = ZAdd(zset, id, compositeScore)
            /\ submitted' = [x \in DOMAIN submitted \cup {id} |->
                                IF x = id THEN score ELSE submitted[x]]
            /\ rcall' = Call(OpUpdateScore, id, score, 0)
            /\ rret' = RFail(ErrNil)
            /\ UNCHANGED wallStart

\* RemovePlayer, lines 195-197
RedisRemovePlayerCall(id) ==
    /\ zset' = ZRem(zset, id)
    /\ submitted' = [x \in DOMAIN submitted \ {id} |-> submitted[x]]
    /\ rcall' = Call(OpRemovePlayer, id, 0, 0)
    /\ rret' = RFail(ErrNil)
    /\ UNCHANGED <<wallStart, wallTick>>

RedisGetRankCall(id) ==
    /\ rcall' = Call(OpGetRank, id, 0, 0)
    /\ rret' = RedisGetRank(zset, id)
    /\ UNCHANGED <<zset, wallStart, wallTick, submitted>>

RedisGetTopNCall(n) ==
    /\ rcall' = Call(OpGetTopN, None, 0, n)
    /\ rret' = RedisGetTopN(zset, n)
    /\ UNCHANGED <<zset, wallStart, wallTick, submitted>>

RedisGetPlayerRankRangeCall(id, n) ==
    /\ rcall' = Call(OpGetPlayerRankRange, id, 0, n)
    /\ rret' = RedisGetPlayerRankRange(zset, id, n)
    /\ UNCHANGED <<zset, wallStart, wallTick, submitted>>

\* GetTotalPlayers, lines 190-192
RedisGetTotalPlayersCall ==
    /\ rcall' = Call(OpGetTotalPlayers, None, 0, 0)
    /\ rret' = [RFail(ErrNil) EXCEPT !.rank = ZCard(zset)]
    /\ UNCHANGED <<zset, wallStart, wallTick, submitted>>

RedisNext ==
    /\ \/ \E id \in Ids, score \in RedisScores : RedisUpdateScoreCall(id, score)
       \/ \E id \in Ids : RedisRemovePlayerCall(id)
       \/ \E id \in Ids : RedisGetRankCall(id)
       \/ \E n \in Ns : RedisGetTopNCall(n)
       \/ \E id \in Ids, n \in Ns : RedisGetPlayerRankRangeCall(id, n)
       \/ RedisGetTotalPlayersCall
    /\ UNCHANGED <<memVars, inGetRank>>

SpecRedis == RedisInit /\ [][RedisNext]_vars

(***************************************************************************)
(* C10: the score that GetRank, GetTopN and GetPlayerRankRange report for  *)
(* a player is the score UpdateScore submitted last for that player:       *)
(* GetRealScore of the composite value s<<40 - t gives back s.             *)
(***************************************************************************)
C10_ReportedScoreIsSubmitted ==
    rret.err = ErrNil =>
        /\ rcall.op = OpGetRank => rret.score = submitted[rcall.id]
        /\ rcall.op \in {OpGetTopN, OpGetPlayerRankRange} =>
              \A k \in 1..Len(rret.result) :
                  rret.result[k].Score = submitted[rret.result[k].PlayerID]

(***************************************************************************)
(* Vocabulary of the Redis properties: the players present and the order   *)
(* the leaderboard is meant to have, from the submitted scores.            *)
(***************************************************************************)
RedisPopulation == Cardinality(DOMAIN submitted)

\* the rank GetRank reports for a member of the set
RedisRankOf(z, id) == RedisGetRank(z, id).rank

RedisCount(n) == IF n < RedisPopulation THEN n ELSE RedisPopulation

(***************************************************************************)
(* C11: for n > 0, the Redis GetTopN(n) returns the min(n, population)     *)
(* players with the highest scores, in score-descending order, the first   *)
(* element being the player that GetRank reports as rank 1.                *)
(***************************************************************************)
C11_RedisTopNIsHighest ==
    (rcall.op = OpGetTopN /\ rret.err = ErrNil) =>
        LET r == rret.result
        IN  /\ Len(r) = RedisCount(rcall.n)
            /\ Len(r) > 0 => RedisRankOf(zset, r[1].PlayerID) = 1
            /\ \A i, j \in 1..Len(r) :
                  i < j => submitted[r[i].PlayerID] >= submitted[r[j].PlayerID]
            /\ \A x \in DOMAIN submitted :
                  (\A k \in 1..Len(r) : r[k].PlayerID # x) =>
                      \A k \in 1..Len(r) : submitted[r[k].PlayerID] >= submitted[x]

(***************************************************************************)
(* C12: after any sequence of UpdateScore and RemovePlayer calls (repeated *)
(* upserts, removal of absent ids, upsert after removal), GetTotalPlayers  *)
(* returns the number of identifiers currently present.                    *)
(***************************************************************************)
C12_RedisTotalPlayers ==
    (rcall.op = OpGetTotalPlayers /\ rret.err = ErrNil) => rret.rank = RedisPopulation

\* two players are present at the last tick of the clock, one is not
C12_Witness ==
    /\ rcall.op = OpGetTotalPlayers
    /\ rret.err = ErrNil
    /\ rret.rank = 2
    /\ wallTick = MaxTick

(***************************************************************************)
(* C13: in Redis, submitting an unchanged score again does not move the    *)
(* player: if A is at score s ahead of B at score s, then after            *)
(* UpdateScore(A, s) A is still ahead of B and GetRank(A) <= GetRank(B).   *)
(***************************************************************************)
C13_Resubmits ==
    /\ rcall'.op = OpUpdateScore
    /\ rcall'.id \in DOMAIN submitted
    /\ submitted[rcall'.id] = rcall'.score

C13_RedisResubmitKeepsOrder ==
    [][C13_Resubmits =>
          \A b \in DOMAIN submitted :
              (/\ submitted[b] = rcall'.score
               /\ RedisRankOf(zset, rcall'.id) < RedisRankOf(zset, b)) =>
                  RedisRankOf(zset', rcall'.id) <= RedisRankOf(zset', b)]_vars

(***************************************************************************)
(* C14: for a present id and n > 0, the Redis GetPlayerRankRange(id, n)    *)
(* returns exactly min(n, population) entries, id among them, also when id *)
(* is the best-ranked or the worst-ranked player.                          *)
(***************************************************************************)
C14_RedisWindowCount ==
    (rcall.op = OpGetPlayerRankRange /\ rcall.n > 0 /\ rcall.id \in DOMAIN submitted) =>
        /\ rret.err = ErrNil
        /\ Len(rret.result) = RedisCount(rcall.n)
        /\ \E k \in 1..Len(rret.result) : rret.result[k].PlayerID = rcall.id

(***************************************************************************)
(* RedisRankingList with two clients: one runs GetRank, lines 66-90, as    *)
(* the three commands it sends (ZRANK, ZSCORE, ZCARD), the other runs      *)
(* UpdateScore and RemovePlayer, one command each, in between.             *)
(***************************************************************************)
RaceIds == {"alice", "bob"}

\* the rank the player has in the set z, if it is a member
HeldRank(z, id) == IF id \in DOMAIN z THEN {RedisGetRank(z, id).rank} ELSE {}

\* the history of the ranks held, continued into the set z
Observe(g, z) ==
    IF g.pc \in {"idle", "done"} THEN g ELSE [g EXCEPT !.held = @ \cup HeldRank(z, g.id)]

GetRankFails(g, e) == [g EXCEPT !.pc = "done", !.ret = RFail(e)]

\* the call of GetRank(playerID)
RedisGetRankBegin(id) ==
    /\ inGetRank.pc \in {"idle", "done"}
    /\ inGetRank' = [NoGetRank EXCEPT !.pc = "zrank", !.id = id,
                                       !.held = HeldRank(zset, id)]
    /\ UNCHANGED <<zset, wallStart, wallTick, rcall, rret, submitted>>

\* lines 68-71: rank, err := r.client.ZRank(...)
RedisGetRankZRank ==
    /\ inGetRank.pc = "zrank"
    /\ inGetRank' = IF inGetRank.id \in DOMAIN zset
                    THEN [inGetRank EXCEPT !.pc = "zscore",
                                           !.rank = ZRank(zset, inGetRank.id)]
                    ELSE GetRankFails(inGetRank, ErrRedis)
    /\ UNCHANGED <<zset, wallStart, wallTick, rcall, rret, submitted>>

\* lines 74-77: score, err := r.client.ZScore(...)
RedisGetRankZScore ==
    /\ inGetRank.pc = "zscore"
    /\ inGetRank' = IF inGetRank.id \in DOMAIN zset
                    THEN [inGetRank EXCEPT !.pc = "zcard",
                                           !.score = zset[inGetRank.id]]
                    ELSE GetRankFails(inGetRank, ErrRedis)
    /\ UNCHANGED <<zset, wallStart, wallTick, rcall, rret, submitted>>

\* lines 80-89: total, err := r.client.ZCard(...); actualRank := int(total - rank)
RedisGetRankZCard ==
    /\ inGetRank.pc = "zcard"
    /\ inGetRank' = [inGetRank EXCEPT
                        !.pc = "done",
                        !.ret = [err |-> ErrNil,
                                 rank |-> ZCard(zset) - inGetRank.rank,
                                 score |-> GetRealScore(inGetRank.score),
                                 result |-> <<>>]]
    /\ UNCHANGED <<zset, wallStart, wallTick, rcall, rret, submitted>>

RedisRaceInit == RedisInit /\ wallStart = I64(0, 0, 1)

RedisRaceNext ==
    /\ \/ \E id \in RaceIds, score \in RedisScores :
             RedisUpdateScoreCall(id, score) /\ inGetRank' = Observe(inGetRank, zset')
       \/ \E id \in RaceIds :
             RedisRemovePlayerCall(id) /\ inGetRank' = Observe(inGetRank, zset')
       \/ \E id \in RaceIds : RedisGetRankBegin(id)
       \/ RedisGetRankZRank
       \/ RedisGetRankZScore
       \/ RedisGetRankZCard
    /\ UNCHANGED memVars

SpecRedisRace == RedisRaceInit /\ [][RedisRaceNext]_vars

(***************************************************************************)
(* C15: a Redis GetRank that runs while other clients call UpdateScore and *)
(* RemovePlayer is computed against one state of the leaderboard: the rank *)
(* it returns is a rank its player held in some state between the call and *)
(* the return, so it is at least 1 (never 0 or negative).                  *)
(***************************************************************************)
C15_RedisGetRankSingleState ==
    (inGetRank.pc = "done" /\ inGetRank.ret.err = ErrNil) =>
        /\ inGetRank.ret.rank >= 1
        /\ inGetRank.ret.rank \in inGetRank.held

(***************************************************************************)
(* C16: the comparison of the in-memory ranking is a strict total order    *)
(* over distinct players, also for players equal in score and update time  *)
(* (the identifier breaks the tie), so the sorted order, and with it every *)
(* rank result, is determined by the players.                              *)
(***************************************************************************)
C16_StrictTotalOrder ==
    NoWriteInProgress =>
        /\ \A a, b \in DOMAIN players :
              a # b => (Less(players, a, b) # Less(players, b, a))
        /\ Cardinality(getSortedPlayers(players)) = 1

(***************************************************************************)
(* C17: in every state with no UpdateScore in progress, ranks holds each   *)
(* Player of players exactly once and nothing else, so its length is the   *)
(* number of distinct ids upserted so far, and for every adjacent pair the *)
(* score strictly decreases, or the scores are equal and the UpdateTime of *)
(* ranks[i+1] is not before the UpdateTime of ranks[i].                    *)
(***************************************************************************)
C17_RanksIsSortedPlayers ==
    NoWriteInProgress =>
        /\ Len(ranks) = Cardinality(upserted)
        /\ \A id \in DOMAIN players :
              Cardinality({i \in 1..Len(ranks) : ranks[i] = id}) = 1
        /\ \A i \in 1..Len(ranks) : ranks[i] \in DOMAIN players
        /\ \A i \in 1..(Len(ranks) - 1) :
              \/ players[ranks[i]].Score > players[ranks[i + 1]].Score
              \/ /\ players[ranks[i]].Score = players[ranks[i + 1]].Score
                 /\ ~(players[ranks[i + 1]].UpdateTime < players[ranks[i]].UpdateTime)

\* three players: a strict decrease of the score, then a tie in the score
\* that the update times order
C17_Witness ==
    /\ NoWriteInProgress
    /\ Len(ranks) = 3
    /\ upserted = Ids
    /\ players[ranks[1]].Score > players[ranks[2]].Score
    /\ players[ranks[2]].Score = players[ranks[3]].Score
    /\ players[ranks[2]].UpdateTime < players[ranks[3]].UpdateTime

(***************************************************************************)
(* C18: the three read operations agree on the rank of a player: the rank  *)
(* GetRank(id) returns is the Rank of id's entry in GetTopN(population)    *)
(* and in GetPlayerRankRange(id, n) for every n > 0.                       *)
(***************************************************************************)
C18_RankIn(result, id) ==
    {result[k].Rank : k \in {x \in 1..Len(result) : result[x].Player = id}}

C18_ReadsAgree ==
    \A t \in Threads :
        (Computed(t, OpGetRank) /\ ret[t].err = ErrNil) =>
            LET id == call[t].id
            IN  /\ C18_RankIn(GetTopN(players, ranks, Population).result, id)
                      = {ret[t].rank}
                /\ \A n \in 1..MaxN : \A sp \in getSortedPlayers(players) :
                      C18_RankIn(GetPlayerRankRange(players, sp, id, n).result, id)
                          = {ret[t].rank}

(***************************************************************************)
(* C19: a result that GetRank, GetTopN or GetPlayerRankRange has returned  *)
(* is a snapshot: the score read from a returned entry is the one it had   *)
(* when the read returned, and no UpdateScore that runs after the read     *)
(* released its lock alters it.                                            *)
(***************************************************************************)
\* the *Player values of a returned result
C19_Returned(r) ==
    ({r.player} \cup {r.result[k].Player : k \in 1..Len(r.result)}) \ {None}

C19_ResultIsSnapshot ==
    [][\A t \in Threads :
          (pc[t] = "idle" /\ ret[t].err = ErrNil /\ ret'[t] = ret[t]) =>
              \A p \in C19_Returned(ret[t]) :
                  ScoreOf(players', p) = ScoreOf(players, p)]_vars

====
